---- MODULE Spec2Model ----
(***************************************************************************)
(* State-machine model of the clip-job orchestration core of server.ts:    *)
(* the Progress Store (downloadProgress), the Fan-out table (clients),     *)
(* the request handler handleDownloadClip with its background pipeline     *)
(* (runYTDLPWithProgress, runFFmpeg), broadcastProgress and the websocket  *)
(* open/close handlers; the download directory with the file route, the    *)
(* progress route and cleanupOldFiles; and the utilities timeToSeconds,    *)
(* formatSeconds, convertSubtitleToText and the file probing of            *)
(* handleDownloadSubtitle, applied to drawn inputs.                        *)
(*                                                                         *)
(* One action is one run-to-completion callback of the event loop.  A      *)
(* promise continuation (microtask) runs before any other callback, which  *)
(* the guard NoMicrotask expresses.                                        *)
(***************************************************************************)
EXTENDS Integers, Sequences, FiniteSets, TLC

VARIABLES
    downloadProgress, \* Progress Store: job id -> record (NoRec = no entry)
    clients,          \* Fan-out table: function whose DOMAIN is the Map's keys
    wsState,          \* per socket: "idle" | "open" | "closing" | "closed"
    wsUrl,            \* per socket: the id query parameter, or NoId
    pc,               \* per job slot: position of the background async block
    jobId,            \* per job slot: downloadId of that invocation
    dlProc,           \* per job slot: state of the yt-dlp child process:
                      \* "none" | "running" (no output yet) | "streaming"
                      \* | "closed" (exit code 0) | "closedNonZero"
                      \* | "failed" (could not be spawned)
    ffProc,           \* per job slot: state of the first ffmpeg child process
    reProc,           \* per job slot: state of the re-encode ffmpeg process
    err,              \* per job slot: message of the rejection being caught
    http,             \* request and response of the handleDownloadClip call
                      \* made by the step just taken (NoCall otherwise)
    lastPublish,      \* the broadcastProgress call made by the step just
                      \* taken (NoPublish otherwise): id, message, sends
    alive,            \* FALSE once an uncaught exception ended the process
    files,            \* names of the files present in DOWNLOAD_DIR
    age,              \* per file name: now - mtime in units of 30 minutes,
                      \* capped at MaxAge; 0 for a name without a file
    served,           \* name and response of the handleDownloadFile call
                      \* made by the step just taken (NoServe otherwise)
    sub,              \* the subtitle request in flight: position, lang, format
    subResp,          \* response of handleDownloadSubtitle sent in this step
    polled,           \* id and response of the handleGetProgress call made
                      \* by the step just taken (NoPoll otherwise)
    calc              \* utility functions applied in a row: the input
                      \* followed by the result of each call (UtilSpec)

vars == <<downloadProgress, clients, wsState, wsUrl, pc, jobId, dlProc,
          ffProc, reProc, err, http, lastPublish, alive, files, age,
          served, polled, sub, subResp, calc>>

(***************************************************************************)
(* Bounds                                                                  *)
(***************************************************************************)
MaxJobs == 2      \* clip jobs (accepted requests)
MaxWs == 2        \* websocket connections
MaxRand == 1      \* randomBytes(4) reads a value in 0..MaxRand

Jobs == 1..MaxJobs
Ws == 1..MaxWs
RandVals == 0..MaxRand

(***************************************************************************)
(* Job ids: generateId                                                     *)
(***************************************************************************)
\* `clip_${timestamp}_${random}`: the timestamp is the ISO time cut after
\* the seconds (slice(0, 15)), the random part the hex of 4 random bytes.
MkId(timestamp, random) == <<timestamp, random>>

\* What new Date() reads.  Two ids are equal iff timestamp and random part
\* are both equal, so calls in different seconds behave like calls in one
\* second that draw different random parts: all calls are placed in one
\* second.
CurrentSecond == 0

generateId(timestamp, random) == MkId(timestamp, random)

Ids == {MkId(CurrentSecond, x) : x \in RandVals}
NoId == <<-1, -1>>

(***************************************************************************)
(* Progress records                                                        *)
(***************************************************************************)
Msg(text, arg) == [text |-> text, arg |-> arg]

NoRec == [status |-> "absent"]

NoError == Msg("", 0)

Filename(id) == [base |-> id, ext |-> "mp4"]
DownloadUrl(id) == [route |-> "/api/download-file/", name |-> Filename(id)]

\* outputFile and tempFile of handleDownloadClip.
OutputFile(id) == Filename(id)
TempFile(id) == [base |-> id, ext |-> "_temp.mkv"]

FileNames == {OutputFile(id) : id \in Ids} \cup {TempFile(id) : id \in Ids}

InitialRecord ==
    [status |-> "downloading", progress |-> 0,
     message |-> Msg("Starting download...", 0)]

\* Percentages are carried in tenths of a percent (yt-dlp prints one
\* decimal): 405 is "40.5%".  Math.floor(percent * 0.5).
ScaleHalf(p10) == (p10 * 5) \div 100

Min(a, b) == IF a < b THEN a ELSE b

\* Variant: the cap at 50 is missing.
DownloadProgressValueUncapped(p10) == ScaleHalf(p10)

DownloadProgressValue(p10) == Min(ScaleHalf(p10), 50)

DownloadingRecord(p10) ==
    [status |-> "downloading", progress |-> DownloadProgressValue(p10),
     message |-> Msg("Downloading... %", p10)]

DownloadedRecord ==
    [status |-> "processing", progress |-> 50,
     message |-> Msg("Processing video...", 0)]

CuttingRecord ==
    [status |-> "processing", progress |-> 60,
     message |-> Msg("Cutting video...", 0)]

\* Variant: the completed record lacks the download URL.
CompletedRecordNoUrl(id) ==
    [status |-> "completed", progress |-> 100, message |-> Msg("Done!", 0),
     filename |-> Filename(id)]

CompletedRecord(id) ==
    [status |-> "completed", progress |-> 100, message |-> Msg("Done!", 0),
     filename |-> Filename(id), download_url |-> DownloadUrl(id)]

ErrorRecord(m) == [status |-> "error", progress |-> 0, message |-> m]

\* Percentages a stderr chunk can carry (tenths): 40.5% and 150%.
Percents == {405, 1500}
NoMatch == -1

ExitCodes == {0, 1}
SpawnFailCode == -2

\* Variant: the handler listens to 'exit', which may come before the
\* output of the process has been read to its end.
ExitedState(code) == IF code = 0 THEN "streaming" ELSE "closedNonZero"

\* State of a child process after its 'close' event, by the exit code the
\* event carried.
ClosedState(code) == IF code = 0 THEN "closed" ELSE "closedNonZero"

(***************************************************************************)
(* Time strings and request validation                                     *)
(***************************************************************************)
\* A time string is the sequence of its ':'-separated parts, each part the
\* sequence of its decimal digits: "0:10:11" is <<<<0>>, <<1,0>>, <<1,1>>>>.
RECURSIVE parseInt(_)
parseInt(ds) ==
    IF ds = <<>> THEN 0
    ELSE parseInt(SubSeq(ds, 1, Len(ds) - 1)) * 10 + ds[Len(ds)]

InvalidTime == -1

timeToSeconds(timeStr) ==
    IF Len(timeStr) = 2
    THEN parseInt(timeStr[1]) * 60 + parseInt(timeStr[2])
    ELSE IF Len(timeStr) = 3
    THEN parseInt(timeStr[1]) * 3600 + parseInt(timeStr[2]) * 60
         + parseInt(timeStr[3])
    ELSE InvalidTime

\* n.toString()
RECURSIVE toString(_)
toString(n) ==
    IF n < 10 THEN <<n>> ELSE Append(toString(n \div 10), n % 10)

\* s.padStart(2, "0")
padStart2(ds) == IF Len(ds) < 2 THEN <<0>> \o ds ELSE ds

\* Variant: the minutes are not reduced modulo the hour.
formatSecondsNoMod(seconds) ==
    LET hours == seconds \div 3600
        minutes == seconds \div 60
        secs == seconds % 60
    IN  IF hours > 0
        THEN <<padStart2(toString(hours)), padStart2(toString(minutes)),
               padStart2(toString(secs))>>
        ELSE <<padStart2(toString(minutes)), padStart2(toString(secs))>>

formatSeconds(seconds) ==
    LET hours == seconds \div 3600
        minutes == (seconds % 3600) \div 60
        secs == seconds % 60
    IN  IF hours > 0
        THEN <<padStart2(toString(hours)), padStart2(toString(minutes)),
               padStart2(toString(secs))>>
        ELSE <<padStart2(toString(minutes)), padStart2(toString(secs))>>

\* /^\d+:[0-5]\d(:[0-5]\d)?$/
TwoDigitField(part) == Len(part) = 2 /\ part[1] <= 5

TimeRegexMatches(timeStr) ==
    /\ Len(timeStr) \in {2, 3}
    /\ Len(timeStr[1]) >= 1
    /\ \A i \in 2..Len(timeStr) : TwoDigitField(timeStr[i])

\* "0:10" (10 s), "10:10" (610 s), "0:10:11" (611 s), "0:75" (no match)
TimeStrs ==
    { <<<<0>>, <<1, 0>>>>,
      <<<<1, 0>>, <<1, 0>>>>,
      <<<<0>>, <<1, 0>>, <<1, 1>>>>,
      <<<<0>>, <<7, 5>>>> }

\* A request body: unparsable JSON, or an object with the three fields
\* (url_ok: z.string().url() accepts the url).
MalformedBody == [json |-> FALSE, url_ok |-> FALSE,
                  start_time |-> <<>>, end_time |-> <<>>]

Requests ==
    {MalformedBody} \cup
    [json : {TRUE}, url_ok : BOOLEAN,
     start_time : TimeStrs, end_time : TimeStrs]

\* The requests Spec and FanSpec draw from: "0:10" to "10:10" (600 s,
\* accepted) and "0:10" to "0:10" (rejected).
SampleRequests ==
    [json : {TRUE}, url_ok : {TRUE},
     start_time : {<<<<0>>, <<1, 0>>>>},
     end_time : {<<<<0>>, <<1, 0>>>>, <<<<1, 0>>, <<1, 0>>>>}]

NoRequest == [json |-> FALSE, url_ok |-> FALSE,
              start_time |-> <<>>, end_time |-> <<-1>>]

\* Variant: the url field is not validated.
ClipRequestSchemaNoUrl(req) ==
    /\ TimeRegexMatches(req.start_time)
    /\ TimeRegexMatches(req.end_time)

ClipRequestSchema(req) ==
    /\ req.url_ok
    /\ TimeRegexMatches(req.start_time)
    /\ TimeRegexMatches(req.end_time)

\* Variant: equal start and end pass.
StartAfterEnd(startSeconds, endSeconds) == startSeconds > endSeconds

StartNotBeforeEnd(startSeconds, endSeconds) == startSeconds >= endSeconds

MaxClipSeconds == 600

\* Variant: a clip of exactly the maximum length is refused.
DurationReached(startSeconds, endSeconds) ==
    endSeconds - startSeconds >= MaxClipSeconds

DurationExceeded(startSeconds, endSeconds) ==
    endSeconds - startSeconds > MaxClipSeconds

\* Responses of handleDownloadClip.
Response(code, error, id) ==
    [code |-> code, error |-> error, download_id |-> id,
     filename |-> Filename(id), download_url |-> DownloadUrl(id)]

NoResponse == Response(0, "", NoId)

NoCall == [req |-> NoRequest, resp |-> NoResponse]

ClipResponse(req) ==
    IF ~req.json
    THEN Response(500, "Error processing video", NoId)
    ELSE IF ~ClipRequestSchema(req)
    THEN Response(400, "Invalid request", NoId)
    ELSE IF timeToSeconds(req.start_time) = InvalidTime
            \/ timeToSeconds(req.end_time) = InvalidTime
    THEN Response(500, "Error processing video", NoId)
    ELSE IF StartNotBeforeEnd(timeToSeconds(req.start_time),
                              timeToSeconds(req.end_time))
    THEN Response(400, "Start time must be before end time", NoId)
    ELSE IF DurationExceeded(timeToSeconds(req.start_time),
                             timeToSeconds(req.end_time))
    THEN Response(400, "Clip duration cannot exceed 10 minutes", NoId)
    ELSE Response(200, "", NoId)

(***************************************************************************)
(* Fan-out: broadcastProgress                                              *)
(***************************************************************************)
\* Variant: a socket whose connection is gone still counts as open.
ReadyStateNotClosed(ws) == wsState[ws] # "closed"

\* ws.readyState === WebSocket.OPEN
ReadyStateOpen(ws) == wsState[ws] = "open"

\* Variant: the loop is left at the first socket that is not open.
SendLoopStopsAtClosed(remaining, sent) ==
    IF \E w \in remaining : ~ReadyStateOpen(w)
    THEN sent
    ELSE [w \in Ws |-> IF w \in remaining THEN sent[w] + 1 ELSE sent[w]]

\* for (const ws of clientSet) if (ws.readyState === OPEN) ws.send(message)
RECURSIVE SendLoop(_, _)
SendLoop(remaining, sent) ==
    IF remaining = {} THEN sent
    ELSE LET ws == CHOOSE w \in remaining : TRUE
         IN  SendLoop(remaining \ {ws},
                      IF ReadyStateOpen(ws)
                      THEN [sent EXCEPT ![ws] = @ + 1]
                      ELSE sent)

NoSends == [w \in Ws |-> 0]

\* Variant: the message goes to the sockets of every set of the table.
broadcastProgressToAll(downloadId, store) ==
    IF store[downloadId] = NoRec
    THEN [id |-> downloadId, data |-> NoRec, sent |-> NoSends]
    ELSE [id |-> downloadId, data |-> store[downloadId],
          sent |-> SendLoop(UNION {clients[k] : k \in DOMAIN clients},
                            NoSends)]

\* The outcome of one broadcastProgress(downloadId) call made while the
\* store is `store`: the record serialised and, per socket, how many
\* messages were sent to it.
broadcastProgress(downloadId, store) ==
    IF store[downloadId] = NoRec
    THEN [id |-> downloadId, data |-> NoRec, sent |-> NoSends]
    ELSE IF downloadId \notin DOMAIN clients
    THEN [id |-> downloadId, data |-> store[downloadId], sent |-> NoSends]
    ELSE [id |-> downloadId, data |-> store[downloadId],
          sent |-> SendLoop(clients[downloadId], NoSends)]

NoPublish == [id |-> NoId, data |-> NoRec, sent |-> NoSends]

\* downloadProgress.set(id, rec); broadcastProgress(id)
SetAndBroadcast(id, rec) ==
    /\ downloadProgress' = [downloadProgress EXCEPT ![id] = rec]
    /\ lastPublish' = broadcastProgress(id, downloadProgress')

\* A step that writes no record and publishes nothing.
NoWrite ==
    /\ downloadProgress' = downloadProgress
    /\ lastPublish' = NoPublish

wsVars == <<clients, wsState, wsUrl>>

(***************************************************************************)
(* The download directory                                                  *)
(***************************************************************************)
\* Response of handleDownloadFile for filename `name` when the directory
\* holds `fs`: the file when it exists, 404 otherwise.
FileResponse(name, fs) ==
    IF name \notin fs
    THEN [name |-> name, code |-> 404, error |-> "File not found"]
    ELSE [name |-> name, code |-> 200, error |-> ""]

NoServe == [name |-> Filename(NoId), code |-> 0, error |-> ""]

\* Time is counted in units of 30 minutes, the period of the cleanup timer.
oneHour == 2
MaxAge == 3          \* ages are capped here

\* Variant: the loop is left at the first file that cannot be unlinked.
CleanupLoopStopsAtFailure(remaining, fs, ages, stuck) ==
    IF \E f \in remaining : ages[f] > oneHour /\ f \in stuck
    THEN fs
    ELSE fs \ {f \in remaining : ages[f] > oneHour}

\* for (const file of files): statSync, and unlinkSync when
\* now - stats.mtimeMs > oneHour; an error of either call is ignored and
\* the loop goes on.  `stuck` are the files whose unlink fails.
RECURSIVE CleanupLoop(_, _, _, _)
CleanupLoop(remaining, fs, ages, stuck) ==
    IF remaining = {} THEN fs
    ELSE LET file == CHOOSE f \in remaining : TRUE
         IN  CleanupLoop(remaining \ {file},
                         IF ages[file] > oneHour /\ file \notin stuck
                         THEN fs \ {file}
                         ELSE fs,
                         ages, stuck)

\* cleanupOldFiles run on directory `fs`: the directory afterwards.
cleanupOldFiles(fs, ages, stuck) == CleanupLoop(fs, fs, ages, stuck)

\* The files of `fs` older than the threshold.
OldFiles(fs, ages) == {f \in fs : ages[f] > oneHour}

\* The ages once the directory has become `fs`.
AgesOf(fs, ages) == [f \in FileNames |-> IF f \in fs THEN ages[f] ELSE 0]

\* Variant: a record whose progress is 0 is taken for a missing one.
ProgressResponseFalsy(downloadId, store) ==
    IF downloadId \notin DOMAIN store \/ store[downloadId] = NoRec
       \/ store[downloadId].progress = 0
    THEN [id |-> downloadId, code |-> 404, body |-> NoRec]
    ELSE [id |-> downloadId, code |-> 200, body |-> store[downloadId]]

\* Response of handleGetProgress for `downloadId` when the store is
\* `store`: the record, or 404 when downloadProgress.get finds none.
ProgressResponse(downloadId, store) ==
    IF downloadId \notin DOMAIN store \/ store[downloadId] = NoRec
    THEN [id |-> downloadId, code |-> 404, body |-> NoRec]
    ELSE [id |-> downloadId, code |-> 200, body |-> store[downloadId]]

NoPoll == [id |-> NoId, code |-> 0, body |-> NoRec]

\* The id of a subtitle request: `subtitle_${Date.now()}_${hex}`.
SubtitleId(ms, random) == <<"subtitle", ms, random>>
SubtitleIds == {SubtitleId(CurrentSecond, x) : x \in RandVals}

\* No subtitle request in flight; no subtitle response sent.
NoSub == [pc |-> "idle", lang |-> "", format |-> ""]
NoSubResp == [code |-> 0, error |-> NoError]

\* A step that is no part of handleDownloadSubtitle.
NoSubtitle ==
    /\ sub' = sub
    /\ subResp' = NoSubResp

\* A step that calls neither read route.
NoReads ==
    /\ served' = NoServe
    /\ polled' = NoPoll
    /\ NoSubtitle

\* A step that calls neither read route and leaves the directory.
NoFiles ==
    /\ files' = files
    /\ age' = age
    /\ NoReads

(***************************************************************************)
(* Utility functions applied to drawn inputs                               *)
(***************************************************************************)
\* calc is a sequence of values, each tagged with its type: [sec |-> n] a
\* number of seconds, [str |-> t] a time string, [sub |-> q] a subtitle
\* request with the directory it finds, [subResp |-> a] its outcome,
\* [lines |-> c] the lines of a subtitle file, [text |-> x] the lines of
\* the plain text made of it.
NoCalc == <<>>

MaxSeconds == 7300   \* seconds drawn for formatSeconds: 0..MaxSeconds
MaxDigits == 2       \* digits of the first part of a drawn time string
MaxCalls == 3        \* utility calls applied to one input

\* Digit strings of length 1..n over some decimal digits.
RECURSIVE DigitStrings(_)
DigitStrings(n) ==
    IF n = 0 THEN {}
    ELSE LET shorter == DigitStrings(n - 1)
         IN  {<<d>> : d \in {0, 1, 2, 7, 9}}
             \cup shorter
             \cup {Append(ds, d) : ds \in shorter, d \in {0, 1, 2, 7, 9}}

\* Two-digit fields that match [0-5]\d.
SampleFields == {<<a, b>> : a \in {0, 1, 3, 5}, b \in {0, 5, 9}}

\* Time strings the request schema accepts.
AcceptedTimeStrs ==
    {<<m, f>> : m \in DigitStrings(MaxDigits), f \in SampleFields}
    \cup {<<h, f, g>> : h \in DigitStrings(MaxDigits),
                        f \in SampleFields, g \in SampleFields}

(***************************************************************************)
(* handleDownloadSubtitle: finding the file yt-dlp wrote                   *)
(***************************************************************************)
\* A file `${downloadId}.${lang}.${ext}`, or `${downloadId}.${ext}` when
\* lang is NoLang, of one subtitle request.
SubName(lang, ext) == [lang |-> lang, ext |-> ext]

NoLang == ""
Langs == {"en", "id"}
Formats == {"srt", "vtt", "txt"}
SubNames == {SubName(l, e) : l \in Langs \cup {NoLang}, e \in Formats}
NoSubName == SubName(NoLang, "")

possibleNames(lang, format) ==
    << SubName(lang, format), SubName(lang, "srt"), SubName(lang, "vtt"),
       SubName(NoLang, format), SubName(NoLang, "srt"),
       SubName(NoLang, "vtt") >>

\* The loop over possibleNames with existsSync: the first name that
\* exists, NoSubName when none does.
RECURSIVE FindFile(_, _)
FindFile(names, fs) ==
    IF names = <<>> THEN NoSubName
    ELSE IF Head(names) \in fs THEN Head(names)
    ELSE FindFile(Tail(names), fs)

\* Lines 574-624 for a request (lang, format) that finds the directory
\* holding `fs` after yt-dlp has run: the response (code, error, the file
\* handed to the Response), the file that was found and the directory
\* afterwards.  For txt the converted text is written to
\* `${downloadId}.txt` and the found file is unlinked after that.
SubtitleOutcome(lang, format, fs) ==
    LET foundFile == FindFile(possibleNames(lang, format), fs)
        finalFile == IF format = "txt" THEN SubName(NoLang, "txt")
                     ELSE foundFile
    IN  IF foundFile = NoSubName
        THEN [code |-> 404,
              error |-> Msg("Subtitle not available for language:", lang),
              found |-> NoSubName, file |-> NoSubName, fs |-> fs]
        ELSE [code |-> 200, error |-> NoError,
              found |-> foundFile, file |-> finalFile,
              fs |-> IF format = "txt"
                     THEN (fs \cup {finalFile}) \ {foundFile}
                     ELSE fs]

(***************************************************************************)
(* convertSubtitleToText                                                   *)
(***************************************************************************)
\* A line is the sequence of its tokens: a blank " ", a digit, the timing
\* arrow "-->", a markup tag, a header word, or a word of text.  The
\* content is the sequence of its lines (content.split("\n")) and the
\* result the sequence of the lines joined by "\n".
Blank == " "
DigitTokens == {"0", "1"}
Arrow == "-->"
TagTokens == {"<i>", "</i>"}
HeaderWords == {"WEBVTT", "NOTE", "STYLE"}

\* line.trim()
RECURSIVE trimStart(_)
trimStart(line) ==
    IF line # <<>> /\ Head(line) = Blank THEN trimStart(Tail(line))
    ELSE line

RECURSIVE trimEnd(_)
trimEnd(line) ==
    IF line # <<>> /\ line[Len(line)] = Blank
    THEN trimEnd(SubSeq(line, 1, Len(line) - 1))
    ELSE line

trim(line) == trimEnd(trimStart(line))

\* trimmed.match(/^\d+$/)
IsNumberLine(trimmed) ==
    trimmed # <<>> /\ \A i \in 1..Len(trimmed) : trimmed[i] \in DigitTokens

\* trimmed.includes("-->")
HasArrow(trimmed) == \E i \in 1..Len(trimmed) : trimmed[i] = Arrow

\* trimmed.startsWith("WEBVTT") || startsWith("NOTE") || startsWith("STYLE")
IsHeaderLine(trimmed) == trimmed # <<>> /\ trimmed[1] \in HeaderWords

\* trimmed.replace(/<[^>]+>/g, "")
RECURSIVE removeTags(_)
removeTags(trimmed) ==
    IF trimmed = <<>> THEN <<>>
    ELSE IF Head(trimmed) \in TagTokens THEN removeTags(Tail(trimmed))
    ELSE <<Head(trimmed)>> \o removeTags(Tail(trimmed))

\* textLines.includes(cleanLine)
Includes(textLines, cleanLine) ==
    \E i \in 1..Len(textLines) : textLines[i] = cleanLine

\* The loop of convertSubtitleToText over the lines still to read, with
\* the text lines collected so far and the skipNext flag.
RECURSIVE ConvertLoop(_, _, _)
ConvertLoop(lines, textLines, skipNext) ==
    IF lines = <<>> THEN textLines
    ELSE LET trimmed == trim(Head(lines))
             rest == Tail(lines)
             cleanLine == removeTags(trimmed)
         IN  IF trimmed = <<>>
             THEN ConvertLoop(rest, textLines, skipNext)
             ELSE IF IsNumberLine(trimmed)
             THEN ConvertLoop(rest, textLines, TRUE)
             ELSE IF HasArrow(trimmed) \/ skipNext
             THEN ConvertLoop(rest, textLines, FALSE)
             ELSE IF IsHeaderLine(trimmed)
             THEN ConvertLoop(rest, textLines, skipNext)
             ELSE IF cleanLine # <<>> /\ ~Includes(textLines, cleanLine)
             THEN ConvertLoop(rest, Append(textLines, cleanLine), skipNext)
             ELSE ConvertLoop(rest, textLines, skipNext)

convertSubtitleToText(content) == ConvertLoop(content, <<>>, FALSE)

MaxLines == 4        \* lines of a drawn subtitle file
MaxChunkLines == 2   \* lines of one stderr chunk of the downloader
MaxChunks == 2       \* chunks of a drawn stderr stream

\* Lines a subtitle file is drawn from: blank, sequence number, timing,
\* header, text, text with leading blank, tagged text, tags only.
SampleLines ==
    { <<Blank>>, <<"1">>, <<"0", Arrow, "1">>, <<"NOTE", "a">>,
      <<"a">>, <<"b">>, <<Blank, "b">>, <<"<i>", "a", "</i>">>,
      <<"<i>", "</i>">> }

RECURSIVE Contents(_)
Contents(n) ==
    IF n = 0 THEN {<<>>}
    ELSE LET shorter == Contents(n - 1)
         IN  shorter \cup {Append(c, l) : c \in shorter, l \in SampleLines}

(***************************************************************************)
(* Initial state                                                           *)
(***************************************************************************)
Init ==
    /\ downloadProgress = [i \in Ids |-> NoRec]
    /\ clients = [i \in {} |-> {}]
    /\ wsState = [w \in Ws |-> "idle"]
    /\ wsUrl = [w \in Ws |-> NoId]
    /\ pc = [r \in Jobs |-> "idle"]
    /\ jobId = [r \in Jobs |-> NoId]
    /\ dlProc = [r \in Jobs |-> "none"]
    /\ ffProc = [r \in Jobs |-> "none"]
    /\ reProc = [r \in Jobs |-> "none"]
    /\ err = [r \in Jobs |-> NoError]
    /\ http = NoCall
    /\ lastPublish = NoPublish
    /\ alive = TRUE
    /\ files = {}
    /\ age = [f \in FileNames |-> 0]
    /\ served = NoServe
    /\ polled = NoPoll
    /\ sub = NoSub
    /\ subResp = NoSubResp
    /\ calc = NoCalc

\* Continuations of a settled promise run before any other callback.
MicrotaskPcs == {"afterDl", "afterFf", "catch"}
NoMicrotask == \A r \in Jobs : pc[r] \notin MicrotaskPcs

Ready == alive /\ NoMicrotask

\* Job slots are taken in order: slot r holds the r-th accepted request.
NextSlot(r) == pc[r] = "idle" /\ \A q \in Jobs : q < r => pc[q] # "idle"

(***************************************************************************)
(* handleDownloadClip                                                      *)
(***************************************************************************)
\* A request that is rejected: the early returns and the outer catch.
handleDownloadClipReject(req) ==
    /\ Ready
    /\ ClipResponse(req).code # 200
    /\ http' = [req |-> req, resp |-> ClipResponse(req)]
    /\ NoWrite
    /\ UNCHANGED <<wsVars, pc, jobId, dlProc, ffProc, reProc, err, alive>>
    /\ NoFiles
    /\ UNCHANGED calc

\* A request that passes: allocate the id, write the initial record, start
\* the background block (it runs synchronously up to the first await, so
\* yt-dlp is spawned before the response is returned).
handleDownloadClipAccept(r, req, random) ==
    /\ Ready
    /\ ClipResponse(req).code = 200
    /\ NextSlot(r)
    /\ LET downloadId == generateId(CurrentSecond, random)
       IN  /\ downloadProgress' =
                  [downloadProgress EXCEPT ![downloadId] = InitialRecord]
           /\ jobId' = [jobId EXCEPT ![r] = downloadId]
           /\ pc' = [pc EXCEPT ![r] = "awaitDl"]
           /\ dlProc' = [dlProc EXCEPT ![r] = "running"]
           /\ http' = [req |-> req, resp |-> Response(200, "", downloadId)]
    /\ lastPublish' = NoPublish
    /\ UNCHANGED <<wsVars, ffProc, reProc, err, alive>>
    /\ NoFiles
    /\ UNCHANGED calc

(***************************************************************************)
(* runYTDLPWithProgress                                                    *)
(***************************************************************************)
\* proc.stderr.on("data"): p10 is the first percentage in the chunk, or
\* NoMatch when the chunk holds none.
DlData(r, p10) ==
    /\ Ready
    /\ dlProc[r] \in {"running", "streaming"}
    /\ dlProc' = [dlProc EXCEPT ![r] = "streaming"]
    /\ IF p10 = NoMatch
       THEN NoWrite
       ELSE SetAndBroadcast(jobId[r], DownloadingRecord(p10))
    /\ http' = NoCall
    /\ UNCHANGED <<wsVars, pc, jobId, ffProc, reProc, err, alive>>
    /\ NoFiles
    /\ UNCHANGED calc

\* proc.on("close")
DlClose(r, code) ==
    /\ Ready
    /\ dlProc[r] \in {"running", "streaming"}
    /\ dlProc' = [dlProc EXCEPT ![r] = ClosedState(code)]
    /\ IF code = 0
       THEN /\ SetAndBroadcast(jobId[r], DownloadedRecord)
            /\ pc' = [pc EXCEPT ![r] = "afterDl"]
            /\ UNCHANGED err
       ELSE /\ pc' = [pc EXCEPT ![r] = "catch"]
            /\ err' = [err EXCEPT ![r] = Msg("Download failed with code", code)]
            /\ NoWrite
    /\ http' = NoCall
    /\ UNCHANGED <<wsVars, jobId, ffProc, reProc, alive>>
    /\ NoFiles
    /\ UNCHANGED calc

\* proc.on("error", reject): the process could not be spawned.  A 'close'
\* with a non-zero code may follow; its reject finds the promise settled.
DlError(r) ==
    /\ Ready
    /\ dlProc[r] = "running"
    /\ dlProc' = [dlProc EXCEPT ![r] = "failed"]
    /\ pc' = [pc EXCEPT ![r] = "catch"]
    /\ err' = [err EXCEPT ![r] = Msg("spawn yt-dlp failed", 0)]
    /\ NoWrite
    /\ http' = NoCall
    /\ UNCHANGED <<wsVars, jobId, ffProc, reProc, alive>>
    /\ NoFiles
    /\ UNCHANGED calc

\* The block after `await runYTDLPWithProgress(...)`: lines 396-408.
AfterDownload(r) ==
    /\ alive
    /\ pc[r] = "afterDl"
    /\ SetAndBroadcast(jobId[r], CuttingRecord)
    /\ ffProc' = [ffProc EXCEPT ![r] = "running"]
    /\ pc' = [pc EXCEPT ![r] = "awaitFf"]
    /\ http' = NoCall
    /\ UNCHANGED <<wsVars, jobId, dlProc, reProc, err, alive>>
    /\ NoFiles
    /\ UNCHANGED calc

(***************************************************************************)
(* runFFmpeg                                                               *)
(***************************************************************************)
\* resolve() / reject(e) of the promise the background block awaits: they
\* act only while the promise is pending, i.e. while the block is waiting.
Settle(r, target, m) ==
    IF pc[r] = "awaitFf"
    THEN /\ pc' = [pc EXCEPT ![r] = target]
         /\ err' = [err EXCEPT ![r] = m]
    ELSE UNCHANGED <<pc, err>>

\* proc.on("close") of the first (stream copy) attempt: code 0 resolves,
\* any other code spawns the re-encode process.
FfClose(r, code) ==
    /\ Ready
    /\ ffProc[r] = "running"
    /\ ffProc' = [ffProc EXCEPT ![r] = ClosedState(code)]
    /\ IF code = 0
       THEN /\ Settle(r, "afterFf", err[r])
            /\ UNCHANGED reProc
       ELSE /\ reProc' = [reProc EXCEPT ![r] = "running"]
            /\ UNCHANGED <<pc, err>>
    /\ NoWrite
    /\ http' = NoCall
    /\ UNCHANGED <<wsVars, jobId, dlProc, alive>>
    /\ NoFiles
    /\ UNCHANGED calc

\* proc.on("error", reject) of the first attempt: ffmpeg could not be
\* spawned.  The runtime may emit 'close' with the negative error code
\* right after 'error', in the same callback; the close handler then
\* takes its non-zero branch and spawns the re-encode process.
FfError(r, closeFollows) ==
    /\ Ready
    /\ ffProc[r] = "running"
    /\ ffProc' = [ffProc EXCEPT ![r] = "failed"]
    /\ Settle(r, "catch", Msg("spawn ffmpeg failed", 0))
    /\ IF closeFollows /\ SpawnFailCode # 0
       THEN reProc' = [reProc EXCEPT ![r] = "running"]
       ELSE UNCHANGED reProc
    /\ NoWrite
    /\ http' = NoCall
    /\ UNCHANGED <<wsVars, jobId, dlProc, alive>>
    /\ NoFiles
    /\ UNCHANGED calc

\* reencodeProc.on("close")
ReClose(r, code2) ==
    /\ Ready
    /\ reProc[r] = "running"
    /\ reProc' = [reProc EXCEPT ![r] = ClosedState(code2)]
    /\ IF code2 = 0
       THEN Settle(r, "afterFf", err[r])
       ELSE Settle(r, "catch", Msg("FFmpeg failed with code", code2))
    /\ NoWrite
    /\ http' = NoCall
    /\ UNCHANGED <<wsVars, jobId, dlProc, ffProc, alive>>
    /\ NoFiles
    /\ UNCHANGED calc

\* reencodeProc has no 'error' listener: when the re-encode process cannot
\* be spawned the 'error' event is thrown as an uncaught exception.  The
\* runtime either ends the server process (crash) or reports the exception
\* and goes on; in both cases no 'close' is delivered and the promise of
\* runFFmpeg is never settled by this process.
ReError(r, crash) ==
    /\ Ready
    /\ reProc[r] = "running"
    /\ reProc' = [reProc EXCEPT ![r] = "failed"]
    /\ alive' = ~crash
    /\ NoWrite
    /\ http' = NoCall
    /\ UNCHANGED <<wsVars, pc, jobId, dlProc, ffProc, err>>
    /\ NoFiles
    /\ UNCHANGED calc

(***************************************************************************)
(* The end of the background block                                         *)
(***************************************************************************)
\* The directory after unlinkSync(tempFile), which may fail.
UnlinkTemp(id, fs, unlinkFails) == IF unlinkFails THEN fs ELSE fs \ {TempFile(id)}

\* The output file has just been written by ffmpeg: its mtime is now.
FreshOutput(id, ages) == [ages EXCEPT ![OutputFile(id)] = 0]

\* Variant: an error of unlinkSync(tempFile) reaches the catch block.
AfterFfmpegUnlinkThrows(r) ==
    /\ alive
    /\ pc[r] = "afterFf"
    /\ \E unlinkFails \in BOOLEAN :
         /\ SetAndBroadcast(jobId[r],
                            IF unlinkFails
                            THEN ErrorRecord(Msg("unlink failed", 0))
                            ELSE CompletedRecord(jobId[r]))
         /\ \E stuck \in SUBSET OldFiles(UnlinkTemp(jobId[r], files, unlinkFails),
                                         FreshOutput(jobId[r], age)) :
              /\ files' = cleanupOldFiles(
                             UnlinkTemp(jobId[r], files, unlinkFails),
                             FreshOutput(jobId[r], age), stuck)
              /\ age' = AgesOf(files', FreshOutput(jobId[r], age))
    /\ NoReads
    /\ pc' = [pc EXCEPT ![r] = "done"]
    /\ http' = NoCall
    /\ UNCHANGED <<wsVars, jobId, dlProc, ffProc, reProc, err,
                   alive>>
    /\ UNCHANGED calc

\* Lines 410-428: after `await runFFmpeg(...)`: unlinkSync(tempFile), the
\* completed record, and cleanupOldFiles, which runs to its end within the
\* call.  Both swallow their errors: the unlink may fail, and so may the
\* unlink of any old file in the sweep.
AfterFfmpeg(r) ==
    /\ alive
    /\ pc[r] = "afterFf"
    /\ SetAndBroadcast(jobId[r], CompletedRecord(jobId[r]))
    /\ \E unlinkFails \in BOOLEAN :
         \E stuck \in SUBSET OldFiles(UnlinkTemp(jobId[r], files, unlinkFails),
                                      FreshOutput(jobId[r], age)) :
           /\ files' = cleanupOldFiles(
                          UnlinkTemp(jobId[r], files, unlinkFails),
                          FreshOutput(jobId[r], age), stuck)
           /\ age' = AgesOf(files', FreshOutput(jobId[r], age))
    /\ NoReads
    /\ pc' = [pc EXCEPT ![r] = "done"]
    /\ http' = NoCall
    /\ UNCHANGED <<wsVars, jobId, dlProc, ffProc, reProc, err,
                   alive>>
    /\ UNCHANGED calc

\* Lines 429-436: the catch block.
Catch(r) ==
    /\ alive
    /\ pc[r] = "catch"
    /\ SetAndBroadcast(jobId[r], ErrorRecord(err[r]))
    /\ pc' = [pc EXCEPT ![r] = "done"]
    /\ err' = [err EXCEPT ![r] = NoError]
    /\ http' = NoCall
    /\ UNCHANGED <<wsVars, jobId, dlProc, ffProc, reProc, alive>>
    /\ NoFiles
    /\ UNCHANGED calc

(***************************************************************************)
(* The download directory and the read routes                              *)
(***************************************************************************)
\* yt-dlp, while it runs, puts the file named by `-o tempFile` in place.
YtDlpWrites(r) ==
    /\ Ready
    /\ dlProc[r] \in {"running", "streaming"}
    /\ files' = files \cup {TempFile(jobId[r])}
    /\ age' = [age EXCEPT ![TempFile(jobId[r])] = 0]
    /\ NoReads
    /\ http' = NoCall
    /\ lastPublish' = NoPublish
    /\ UNCHANGED <<wsVars, downloadProgress, pc, jobId, dlProc, ffProc,
                   reProc, err, alive>>
    /\ UNCHANGED calc

\* ffmpeg (first or re-encode attempt), while it runs, opens its input
\* and then creates its output file (-y: an existing one is overwritten).
FfmpegWrites(r) ==
    /\ Ready
    /\ ffProc[r] = "running" \/ reProc[r] = "running"
    /\ TempFile(jobId[r]) \in files
    /\ files' = files \cup {OutputFile(jobId[r])}
    /\ age' = [age EXCEPT ![OutputFile(jobId[r])] = 0]
    /\ NoReads
    /\ http' = NoCall
    /\ lastPublish' = NoPublish
    /\ UNCHANGED <<wsVars, downloadProgress, pc, jobId, dlProc, ffProc,
                   reProc, err, alive>>
    /\ UNCHANGED calc

\* GET /api/download-file/<name>
handleDownloadFile(name) ==
    /\ Ready
    /\ served' = FileResponse(name, files)
    /\ polled' = NoPoll
    /\ NoSubtitle
    /\ http' = NoCall
    /\ lastPublish' = NoPublish
    /\ UNCHANGED <<wsVars, downloadProgress, pc, jobId, dlProc, ffProc,
                   reProc, err, alive, files, age>>
    /\ UNCHANGED calc

\* GET /api/progress/<downloadId>
handleGetProgress(downloadId) ==
    /\ Ready
    /\ polled' = ProgressResponse(downloadId, downloadProgress)
    /\ served' = NoServe
    /\ NoSubtitle
    /\ http' = NoCall
    /\ lastPublish' = NoPublish
    /\ UNCHANGED <<wsVars, downloadProgress, pc, jobId, dlProc, ffProc,
                   reProc, err, alive, files, age>>
    /\ UNCHANGED calc

\* setInterval(cleanupOldFiles, 30 * 60 * 1000)
CleanupTimer ==
    /\ Ready
    /\ \E stuck \in SUBSET OldFiles(files, age) :
         /\ files' = cleanupOldFiles(files, age, stuck)
         /\ age' = AgesOf(files', age)
    /\ NoReads
    /\ http' = NoCall
    /\ lastPublish' = NoPublish
    /\ UNCHANGED <<wsVars, downloadProgress, pc, jobId, dlProc, ffProc,
                   reProc, err, alive>>
    /\ UNCHANGED calc

(***************************************************************************)
(* handleDownloadSubtitle                                                  *)
(***************************************************************************)
\* What every step of handleDownloadSubtitle leaves alone.
SubtitleFrame ==
    /\ served' = NoServe
    /\ polled' = NoPoll
    /\ http' = NoCall
    /\ lastPublish' = NoPublish
    /\ UNCHANGED <<wsVars, downloadProgress, pc, jobId, dlProc, ffProc,
                   reProc, err, alive, files, age>>
    /\ UNCHANGED calc

\* Lines 543-551 and 625-630: a body that is not JSON throws into the
\* catch block (500); a body the schema refuses is answered with 400.
handleDownloadSubtitleReject(malformed) ==
    /\ Ready
    /\ sub.pc = "idle"
    /\ subResp' = IF malformed
                  THEN [code |-> 500,
                        error |-> Msg("Error downloading subtitle:", 0)]
                  ELSE [code |-> 400, error |-> Msg("Invalid request", 0)]
    /\ sub' = sub
    /\ SubtitleFrame

\* Variant: the request is entered in the store under its id.
handleDownloadSubtitleTracked(lang, format) ==
    /\ Ready
    /\ sub.pc = "idle"
    /\ sub' = [pc |-> "awaitInfo", lang |-> lang, format |-> format]
    /\ subResp' = NoSubResp
    /\ \E random \in RandVals :
         downloadProgress' =
           [i \in DOMAIN downloadProgress
                   \cup {SubtitleId(CurrentSecond, random)} |->
              IF i = SubtitleId(CurrentSecond, random)
              THEN InitialRecord
              ELSE downloadProgress[i]]
    /\ served' = NoServe
    /\ polled' = NoPoll
    /\ http' = NoCall
    /\ lastPublish' = NoPublish
    /\ UNCHANGED <<wsVars, pc, jobId, dlProc, ffProc, reProc, err, alive,
                   files, age>>
    /\ UNCHANGED calc

\* Lines 553-559: a valid body; the id is made and runYTDL(--dump-json)
\* is started.
handleDownloadSubtitleAccept(lang, format) ==
    /\ Ready
    /\ sub.pc = "idle"
    /\ sub' = [pc |-> "awaitInfo", lang |-> lang, format |-> format]
    /\ subResp' = NoSubResp
    /\ SubtitleFrame

\* Lines 559-572: the first runYTDL settles.  ok: exit code 0 and output
\* that parses; the subtitle download is started.  Otherwise the catch
\* block answers 500.
SubtitleInfoSettles(ok) ==
    /\ Ready
    /\ sub.pc = "awaitInfo"
    /\ IF ok
       THEN /\ sub' = [sub EXCEPT !.pc = "awaitSubs"]
            /\ subResp' = NoSubResp
       ELSE /\ sub' = NoSub
            /\ subResp' = [code |-> 500,
                           error |-> Msg("Error downloading subtitle:", 0)]
    /\ SubtitleFrame

\* The names the probing loop of a request looks at.
ProbedNames(lang, format) ==
    {possibleNames(lang, format)[i] : i \in 1..Len(possibleNames(lang, format))}

\* Lines 564-630: the second runYTDL settles, having written the files
\* `fs`; on success the probing, the conversion and the response.
SubtitleDownloadSettles(ok, fs) ==
    /\ Ready
    /\ sub.pc = "awaitSubs"
    /\ sub' = NoSub
    /\ subResp' =
         IF ok
         THEN [code |-> SubtitleOutcome(sub.lang, sub.format, fs).code,
               error |-> SubtitleOutcome(sub.lang, sub.format, fs).error]
         ELSE [code |-> 500,
               error |-> Msg("Error downloading subtitle:", 0)]
    /\ SubtitleFrame

\* Thirty minutes pass: every file in the directory gets older.
HalfHourPasses ==
    /\ Ready
    /\ \E f \in files : age[f] < MaxAge
    /\ age' = [f \in FileNames |->
                IF f \in files THEN Min(age[f] + 1, MaxAge) ELSE 0]
    /\ files' = files
    /\ NoReads
    /\ http' = NoCall
    /\ lastPublish' = NoPublish
    /\ UNCHANGED <<wsVars, downloadProgress, pc, jobId, dlProc, ffProc,
                   reProc, err, alive>>
    /\ UNCHANGED calc

(***************************************************************************)
(* Websocket handlers                                                      *)
(***************************************************************************)
\* Variant: the open handler sends the job's current record to the new
\* socket.
WsOpenReplays(ws, id) ==
    /\ Ready
    /\ wsState[ws] = "idle"
    /\ \A w \in Ws : w < ws => wsState[w] # "idle"
    /\ wsState' = [wsState EXCEPT ![ws] = "open"]
    /\ wsUrl' = [wsUrl EXCEPT ![ws] = id]
    /\ IF id # NoId
       THEN clients' =
              [k \in DOMAIN clients \cup {id} |->
                 IF k = id
                 THEN (IF id \in DOMAIN clients THEN clients[id] ELSE {})
                      \cup {ws}
                 ELSE clients[k]]
       ELSE UNCHANGED clients
    /\ downloadProgress' = downloadProgress
    /\ lastPublish' =
         IF id # NoId /\ downloadProgress[id] # NoRec
         THEN [id |-> id, data |-> downloadProgress[id],
               sent |-> [NoSends EXCEPT ![ws] = 1]]
         ELSE NoPublish
    /\ http' = NoCall
    /\ UNCHANGED <<pc, jobId, dlProc, ffProc, reProc, err, alive>>
    /\ NoFiles
    /\ UNCHANGED calc

\* websocket.open: id is the `id` query parameter (NoId when absent).
\* Connections are numbered in the order in which they are opened.
WsOpen(ws, id) ==
    /\ Ready
    /\ wsState[ws] = "idle"
    /\ \A w \in Ws : w < ws => wsState[w] # "idle"
    /\ wsState' = [wsState EXCEPT ![ws] = "open"]
    /\ wsUrl' = [wsUrl EXCEPT ![ws] = id]
    /\ IF id # NoId
       THEN clients' =
              [k \in DOMAIN clients \cup {id} |->
                 IF k = id
                 THEN (IF id \in DOMAIN clients THEN clients[id] ELSE {})
                      \cup {ws}
                 ELSE clients[k]]
       ELSE UNCHANGED clients
    /\ NoWrite
    /\ http' = NoCall
    /\ UNCHANGED <<pc, jobId, dlProc, ffProc, reProc, err, alive>>
    /\ NoFiles
    /\ UNCHANGED calc

\* The connection goes away: readyState is no longer OPEN; the close
\* handler has not run yet.
WsDrop(ws) ==
    /\ Ready
    /\ wsState[ws] = "open"
    /\ wsState' = [wsState EXCEPT ![ws] = "closing"]
    /\ NoWrite
    /\ http' = NoCall
    /\ UNCHANGED <<clients, wsUrl, pc, jobId, dlProc, ffProc, reProc,
                   err, alive>>
    /\ NoFiles
    /\ UNCHANGED calc

\* Variant: the close handler leaves the socket in its set.
WsCloseKeepsMember(ws) ==
    /\ Ready
    /\ wsState[ws] \in {"open", "closing"}
    /\ wsState' = [wsState EXCEPT ![ws] = "closed"]
    /\ wsUrl' = [wsUrl EXCEPT ![ws] = NoId]
    /\ UNCHANGED clients
    /\ NoWrite
    /\ http' = NoCall
    /\ UNCHANGED <<pc, jobId, dlProc, ffProc, reProc, err, alive>>
    /\ NoFiles
    /\ UNCHANGED calc

\* websocket.close; the socket object is dead afterwards.
WsClose(ws) ==
    /\ Ready
    /\ wsState[ws] \in {"open", "closing"}
    /\ wsState' = [wsState EXCEPT ![ws] = "closed"]
    /\ wsUrl' = [wsUrl EXCEPT ![ws] = NoId]
    /\ IF wsUrl[ws] # NoId /\ wsUrl[ws] \in DOMAIN clients
       THEN clients' = [clients EXCEPT ![wsUrl[ws]] = @ \ {ws}]
       ELSE UNCHANGED clients
    /\ NoWrite
    /\ http' = NoCall
    /\ UNCHANGED <<pc, jobId, dlProc, ffProc, reProc, err, alive>>
    /\ NoFiles
    /\ UNCHANGED calc

\* One call of broadcastProgress(downloadId) on its own, in any state of
\* the store and the table.
broadcastProgressCall(downloadId) ==
    /\ Ready
    /\ lastPublish' = broadcastProgress(downloadId, downloadProgress)
    /\ http' = NoCall
    /\ UNCHANGED <<wsVars, downloadProgress, pc, jobId, dlProc, ffProc,
                   reProc, err, alive>>
    /\ NoFiles
    /\ UNCHANGED calc

(***************************************************************************)
(* Specifications                                                          *)
(***************************************************************************)
\* The callbacks of the pipeline of job slot r.
JobStep(r) ==
    \/ \E code \in ExitCodes : DlClose(r, code)
    \/ DlError(r)
    \/ AfterDownload(r)
    \/ \E code \in ExitCodes : FfClose(r, code)
    \/ \E closeFollows \in BOOLEAN : FfError(r, closeFollows)
    \/ \E code2 \in ExitCodes : ReClose(r, code2)
    \/ \E crash \in BOOLEAN : ReError(r, crash)
    \/ AfterFfmpeg(r)
    \/ Catch(r)

\* Spec: MaxJobs concurrent clip jobs; no observer connects, and the
\* download directory and the read routes are left to FileSpec.
Next ==
    \/ \E req \in SampleRequests : handleDownloadClipReject(req)
    \/ \E r \in Jobs, req \in SampleRequests, random \in RandVals :
          handleDownloadClipAccept(r, req, random)
    \/ \E r \in Jobs, p10 \in Percents \cup {NoMatch} : DlData(r, p10)
    \/ \E r \in Jobs, code \in ExitCodes : DlClose(r, code)
    \/ \E r \in Jobs : DlError(r)
    \/ \E r \in Jobs : AfterDownload(r)
    \/ \E r \in Jobs, code \in ExitCodes : FfClose(r, code)
    \/ \E r \in Jobs, closeFollows \in BOOLEAN : FfError(r, closeFollows)
    \/ \E r \in Jobs, code2 \in ExitCodes : ReClose(r, code2)
    \/ \E r \in Jobs, crash \in BOOLEAN : ReError(r, crash)
    \/ \E r \in Jobs : AfterFfmpeg(r)
    \/ \E r \in Jobs : Catch(r)

Spec == Init /\ [][Next]_vars

\* FairSpec: Spec, where every spawned process eventually fails to start or
\* exits and every callback and continuation of a job is eventually run.
FairSpec == Spec /\ \A r \in Jobs : WF_vars(JobStep(r))

\* FanSpec: the first clip job and MaxWs observers.
FanNext ==
    \/ \E req \in SampleRequests : handleDownloadClipReject(req)
    \/ \E req \in SampleRequests, random \in RandVals :
          handleDownloadClipAccept(1, req, random)
    \/ \E p10 \in Percents \cup {NoMatch} : DlData(1, p10)
    \/ \E code \in ExitCodes : DlClose(1, code)
    \/ DlError(1)
    \/ AfterDownload(1)
    \/ \E code \in ExitCodes : FfClose(1, code)
    \/ \E closeFollows \in BOOLEAN : FfError(1, closeFollows)
    \/ \E code2 \in ExitCodes : ReClose(1, code2)
    \/ \E crash \in BOOLEAN : ReError(1, crash)
    \/ AfterFfmpeg(1)
    \/ Catch(1)
    \/ \E ws \in Ws, id \in Ids \cup {NoId} : WsOpen(ws, id)
    \/ \E ws \in Ws : WsDrop(ws)
    \/ \E ws \in Ws : WsClose(ws)

FanSpec == Init /\ [][FanNext]_vars

\* FanSpec with every enabled callback of the first job eventually run.
FanFairSpec == FanSpec /\ WF_vars(JobStep(1))

\* PublishSpec: FanSpec with broadcastProgress also called on its own.
PublishNext ==
    \/ FanNext
    \/ \E downloadId \in Ids : broadcastProgressCall(downloadId)

PublishSpec == Init /\ [][PublishNext]_vars

\* SubtitleSpec: the first clip job, the first observer, the progress
\* route and one subtitle request at a time.
SubtitleNext ==
    \/ \E req \in SampleRequests : handleDownloadClipReject(req)
    \/ \E req \in SampleRequests, random \in RandVals :
          handleDownloadClipAccept(1, req, random)
    \/ \E p10 \in Percents \cup {NoMatch} : DlData(1, p10)
    \/ \E code \in ExitCodes : DlClose(1, code)
    \/ DlError(1)
    \/ AfterDownload(1)
    \/ \E code \in ExitCodes : FfClose(1, code)
    \/ \E closeFollows \in BOOLEAN : FfError(1, closeFollows)
    \/ \E code2 \in ExitCodes : ReClose(1, code2)
    \/ \E crash \in BOOLEAN : ReError(1, crash)
    \/ AfterFfmpeg(1)
    \/ Catch(1)
    \/ \E id \in Ids \cup SubtitleIds : WsOpen(1, id)
    \/ WsDrop(1)
    \/ WsClose(1)
    \/ \E downloadId \in Ids \cup SubtitleIds : handleGetProgress(downloadId)
    \/ \E malformed \in BOOLEAN : handleDownloadSubtitleReject(malformed)
    \/ \E lang \in Langs, format \in Formats :
          handleDownloadSubtitleAccept(lang, format)
    \/ \E ok \in BOOLEAN : SubtitleInfoSettles(ok)
    \/ \E ok \in BOOLEAN, fs \in SUBSET ProbedNames(sub.lang, sub.format) :
          SubtitleDownloadSettles(ok, fs)

SubtitleSpec == Init /\ [][SubtitleNext]_vars

\* AttachSpec: FanSpec with the progress route.
AttachNext ==
    \/ FanNext
    \/ \E downloadId \in Ids \cup {NoId} : handleGetProgress(downloadId)

AttachSpec == Init /\ [][AttachNext]_vars

\* ClipSpec: every request of Requests, the first clip job and the first
\* observer.
ClipNext ==
    \/ \E req \in Requests : handleDownloadClipReject(req)
    \/ \E req \in Requests, random \in RandVals :
          handleDownloadClipAccept(1, req, random)
    \/ \E p10 \in Percents \cup {NoMatch} : DlData(1, p10)
    \/ \E code \in ExitCodes : DlClose(1, code)
    \/ DlError(1)
    \/ AfterDownload(1)
    \/ \E code \in ExitCodes : FfClose(1, code)
    \/ \E closeFollows \in BOOLEAN : FfError(1, closeFollows)
    \/ \E code2 \in ExitCodes : ReClose(1, code2)
    \/ \E crash \in BOOLEAN : ReError(1, crash)
    \/ AfterFfmpeg(1)
    \/ Catch(1)
    \/ \E id \in Ids \cup {NoId} : WsOpen(1, id)
    \/ WsDrop(1)
    \/ WsClose(1)

ClipSpec == Init /\ [][ClipNext]_vars

\* FileSpec: the first clip job with the files its tools write, the file
\* route, the progress route and the periodic cleanup.
FileNext ==
    \/ \E req \in SampleRequests : handleDownloadClipReject(req)
    \/ \E req \in SampleRequests, random \in RandVals :
          handleDownloadClipAccept(1, req, random)
    \/ \E p10 \in Percents \cup {NoMatch} : DlData(1, p10)
    \/ \E code \in ExitCodes : DlClose(1, code)
    \/ DlError(1)
    \/ AfterDownload(1)
    \/ \E code \in ExitCodes : FfClose(1, code)
    \/ \E closeFollows \in BOOLEAN : FfError(1, closeFollows)
    \/ \E code2 \in ExitCodes : ReClose(1, code2)
    \/ \E crash \in BOOLEAN : ReError(1, crash)
    \/ AfterFfmpeg(1)
    \/ Catch(1)
    \/ YtDlpWrites(1)
    \/ FfmpegWrites(1)
    \/ \E name \in FileNames : handleDownloadFile(name)
    \/ \E downloadId \in Ids \cup {NoId} : handleGetProgress(downloadId)
    \/ CleanupTimer
    \/ HalfHourPasses

FileSpec == Init /\ [][FileNext]_vars

\* UtilSpec: the utility functions applied to inputs drawn from bounded
\* sets; the server state stays as constructed.
serverVars == <<downloadProgress, clients, wsState, wsUrl, pc, jobId, dlProc,
                ffProc, reProc, err, http, lastPublish, alive, files,
                age, served, polled, sub, subResp>>

\* A stderr chunk is the sequence of the lines it holds; a line is the
\* percentage it carries (tenths) or NoMatch.
\* line.match(/(\d+\.?\d*)%/): the first percentage of the chunk.
FirstMatch(chunk) ==
    IF \E i \in 1..Len(chunk) : chunk[i] # NoMatch
    THEN chunk[CHOOSE i \in 1..Len(chunk) :
                 /\ chunk[i] # NoMatch
                 /\ \A j \in 1..(i - 1) : chunk[j] = NoMatch]
    ELSE NoMatch

\* The records one call of the stderr 'data' handler writes and publishes.
stderrData(chunk) ==
    IF FirstMatch(chunk) = NoMatch
    THEN <<>>
    ELSE <<DownloadingRecord(FirstMatch(chunk))>>

\* The records written for a stream delivered as `chunks`, in order.
RECURSIVE StderrWrites(_)
StderrWrites(chunks) ==
    IF chunks = <<>> THEN <<>>
    ELSE stderrData(Head(chunks)) \o StderrWrites(Tail(chunks))

\* Chunks of 1..n lines and streams of 1..n chunks.
ChunksOf(n) ==
    UNION {[1..k -> Percents \cup {NoMatch}] : k \in 1..n}

Streams(n) == UNION {[1..k -> ChunksOf(MaxChunkLines)] : k \in 1..n}

UtilInit ==
    /\ downloadProgress = [i \in Ids |-> NoRec]
    /\ clients = [i \in {} |-> {}]
    /\ wsState = [w \in Ws |-> "idle"]
    /\ wsUrl = [w \in Ws |-> NoId]
    /\ pc = [r \in Jobs |-> "idle"]
    /\ jobId = [r \in Jobs |-> NoId]
    /\ dlProc = [r \in Jobs |-> "none"]
    /\ ffProc = [r \in Jobs |-> "none"]
    /\ reProc = [r \in Jobs |-> "none"]
    /\ err = [r \in Jobs |-> NoError]
    /\ http = NoCall
    /\ lastPublish = NoPublish
    /\ alive = TRUE
    /\ files = {}
    /\ age = [f \in FileNames |-> 0]
    /\ served = NoServe
    /\ polled = NoPoll
    /\ sub = NoSub
    /\ subResp = NoSubResp
    /\ calc \in {<<[sec |-> n]>> : n \in 0..MaxSeconds}
               \cup {<<[str |-> t]>> : t \in AcceptedTimeStrs}
               \cup {<<[sub |-> [lang |-> l, format |-> f, fs |-> d]]>> :
                       l \in Langs, f \in Formats, d \in SUBSET SubNames}
               \cup {<<[lines |-> c]>> : c \in Contents(MaxLines)}
               \cup {<<[chunks |-> c]>> : c \in Streams(MaxChunks)}

\* formatSeconds applied to the last value, a number of seconds.
FormatSecondsCall ==
    /\ Len(calc) \in 1..MaxCalls
    /\ "sec" \in DOMAIN calc[Len(calc)]
    /\ calc' = Append(calc, [str |-> formatSeconds(calc[Len(calc)].sec)])
    /\ UNCHANGED serverVars

\* timeToSeconds applied to the last value, a time string.
TimeToSecondsCall ==
    /\ Len(calc) \in 1..MaxCalls
    /\ "str" \in DOMAIN calc[Len(calc)]
    /\ calc' = Append(calc, [sec |-> timeToSeconds(calc[Len(calc)].str)])
    /\ UNCHANGED serverVars

\* handleDownloadSubtitle from the probing of the file names on.
HandleDownloadSubtitleCall ==
    /\ Len(calc) = 1
    /\ "sub" \in DOMAIN calc[1]
    /\ calc' = Append(calc,
                  [subResp |-> SubtitleOutcome(calc[1].sub.lang,
                                               calc[1].sub.format,
                                               calc[1].sub.fs)])
    /\ UNCHANGED serverVars

\* convertSubtitleToText applied to the drawn content.
ConvertSubtitleToTextCall ==
    /\ Len(calc) = 1
    /\ "lines" \in DOMAIN calc[1]
    /\ calc' = Append(calc, [text |-> convertSubtitleToText(calc[1].lines)])
    /\ UNCHANGED serverVars

\* The stderr 'data' handler called once per chunk of the drawn stream.
StderrDataCall ==
    /\ Len(calc) = 1
    /\ "chunks" \in DOMAIN calc[1]
    /\ calc' = Append(calc, [writes |-> StderrWrites(calc[1].chunks)])
    /\ UNCHANGED serverVars

UtilNext ==
    \/ StderrDataCall
    \/ FormatSecondsCall
    \/ TimeToSecondsCall
    \/ HandleDownloadSubtitleCall
    \/ ConvertSubtitleToTextCall

UtilSpec == UtilInit /\ [][UtilNext]_vars

(***************************************************************************)
(* Properties                                                              *)
(***************************************************************************)
Terminal(rec) == rec.status \in {"completed", "error"}

Created(r) == pc[r] # "idle"

\* The record stored under the id of job slot r.
JobRecord(r) ==
    IF jobId[r] \in Ids THEN downloadProgress[jobId[r]] ELSE NoRec

\* C1: once the record of a job id has status completed or error, no step
\* changes its status or its progress.
C1_TerminalIsFinal ==
    [][\A id \in Ids :
         Terminal(downloadProgress[id]) =>
           /\ downloadProgress'[id].status = downloadProgress[id].status
           /\ downloadProgress'[id].progress = downloadProgress[id].progress
      ]_vars

\* C2: whenever a record is replaced by a record whose status is not error,
\* the new progress is at least the old one.
C2_ProgressMonotone ==
    [][\A id \in Ids :
         ( /\ downloadProgress[id] # NoRec
           /\ downloadProgress'[id] # downloadProgress[id]
           /\ downloadProgress'[id].status # "error" ) =>
           downloadProgress'[id].progress >= downloadProgress[id].progress
      ]_vars

\* C3: every created job eventually has a record with status completed or
\* error, given that every spawned process eventually fails to start or
\* exits (FairSpec).
C3_EveryJobTerminates ==
    \A r \in Jobs :
      [](Created(r) => <>Terminal(JobRecord(r)))

\* C4: the status of a record changes only along downloading -> processing
\* -> completed, or from downloading or processing to error.
ForwardMoves ==
    { <<"downloading", "processing">>, <<"processing", "completed">>,
      <<"downloading", "error">>, <<"processing", "error">> }

C4_StatusForwardOnly ==
    [][\A id \in Ids :
         ( /\ downloadProgress[id] # NoRec
           /\ downloadProgress'[id].status # downloadProgress[id].status ) =>
           <<downloadProgress[id].status, downloadProgress'[id].status>>
             \in ForwardMoves
      ]_vars

\* C5: every stored record has an integer progress in the range of its
\* status: downloading 0..50, processing 50..100, completed 100, error 0.
C5_ProgressMatchesStatus ==
    \A id \in Ids :
      LET rec == downloadProgress[id]
      IN  rec # NoRec =>
            /\ rec.progress \in Int
            /\ rec.status \in {"downloading", "processing", "completed",
                               "error"}
            /\ rec.status = "downloading" => rec.progress \in 0..50
            /\ rec.status = "processing" => rec.progress \in 50..100
            /\ rec.status = "completed" => rec.progress = 100
            /\ rec.status = "error" => rec.progress = 0

\* A record written for a reported percentage above 100.
C5_Witness ==
    \E id \in Ids :
      /\ downloadProgress[id].status = "downloading"
      /\ downloadProgress[id].message.arg > 1000
      /\ downloadProgress[id].progress = 50

\* What the claims call a request that passes validation.
ValidClipRequest(req) ==
    /\ req.json
    /\ req.url_ok
    /\ TimeRegexMatches(req.start_time)
    /\ TimeRegexMatches(req.end_time)
    /\ timeToSeconds(req.start_time) < timeToSeconds(req.end_time)
    /\ timeToSeconds(req.end_time) - timeToSeconds(req.start_time) <= 600

\* C6: a call of handleDownloadClip with a valid request returns success
\* with a job id while the downloader it spawned is still running, and at
\* that moment the store holds {downloading, 0} for that id.
C6_AcceptedAtOnce ==
    (http # NoCall /\ ValidClipRequest(http.req)) =>
      /\ http.resp.code = 200
      /\ http.resp.download_id \in Ids
      /\ downloadProgress[http.resp.download_id].status = "downloading"
      /\ downloadProgress[http.resp.download_id].progress = 0
      /\ \E r \in Jobs :
           /\ jobId[r] = http.resp.download_id
           /\ pc[r] = "awaitDl"
           /\ dlProc[r] = "running"

\* An accepted request of exactly 600 seconds.
C6_Witness ==
    /\ http.resp.code = 200
    /\ timeToSeconds(http.req.end_time) - timeToSeconds(http.req.start_time)
         = 600

\* C7: a call of handleDownloadClip with an invalid request is rejected
\* without a job id and leaves the store, the fan-out table, the jobs and
\* the processes as they were.
C7_RejectedLeavesNoTrace ==
    [][(http' # NoCall /\ ~ValidClipRequest(http'.req)) =>
         /\ http'.resp.code \in {400, 500}
         /\ http'.resp.download_id = NoId
         /\ UNCHANGED <<downloadProgress, clients, pc, jobId, dlProc, ffProc,
                        reProc>>
      ]_vars

\* A rejection that happens while a job is running and an observer is
\* attached.
C7_Witness ==
    /\ http.resp.code = 400
    /\ http.resp.error = "Start time must be before end time"
    /\ \E r \in Jobs : dlProc[r] = "streaming"
    /\ \E id \in DOMAIN clients : clients[id] # {}

\* C8: for a request that passes the schema, start >= end gives the 400
\* "start before end" error, end - start > 600 gives the 400 duration
\* error, and 0 < end - start <= 600 gives neither.
StartBeforeEndError == "Start time must be before end time"
DurationError == "Clip duration cannot exceed 10 minutes"

C8_RejectionCause ==
    (http # NoCall /\ http.req.json /\ ClipRequestSchema(http.req)) =>
      LET startSeconds == timeToSeconds(http.req.start_time)
          endSeconds == timeToSeconds(http.req.end_time)
      IN  /\ startSeconds >= endSeconds =>
                http.resp.code = 400 /\ http.resp.error = StartBeforeEndError
          /\ endSeconds - startSeconds > 600 =>
                http.resp.code = 400 /\ http.resp.error = DurationError
          /\ (0 < endSeconds - startSeconds
                /\ endSeconds - startSeconds <= 600) =>
                http.resp.error \notin {StartBeforeEndError, DurationError}

\* A request rejected for its duration (601 seconds).
C8_Witness ==
    /\ http.resp.error = DurationError
    /\ timeToSeconds(http.req.end_time) - timeToSeconds(http.req.start_time)
         = 601

\* C9: no two jobs were given the same id.
C9_IdsUnique ==
    \A r, q \in Jobs :
      (r # q /\ Created(r) /\ Created(q)) => jobId[r] # jobId[q]

\* C10: a publish for id X sends the current record of X exactly once to
\* every socket that is in the set of X and open.
C10_PublishReachesOpenObservers ==
    lastPublish # NoPublish =>
      \A w \in Ws :
        ( /\ lastPublish.id \in DOMAIN clients
          /\ w \in clients[lastPublish.id]
          /\ wsState[w] = "open" ) =>
          /\ lastPublish.sent[w] = 1
          /\ lastPublish.data = downloadProgress[lastPublish.id]

\* A publish to a set that holds an open socket and one that is no longer
\* open.
C10_Witness ==
    /\ lastPublish # NoPublish
    /\ lastPublish.id \in DOMAIN clients
    /\ \E w, v \in clients[lastPublish.id] :
         /\ wsState[w] = "open"
         /\ lastPublish.sent[w] = 1
         /\ wsState[v] = "closing"

\* C11: a publish for id X sends nothing to a socket that is not attached
\* to X: one that was never opened, one opened for another id or without
\* an id, and one whose close handler has run.
C11_PublishSkipsOthers ==
    lastPublish # NoPublish =>
      \A w \in Ws :
        (wsState[w] \in {"idle", "closed"} \/ wsUrl[w] # lastPublish.id) =>
          lastPublish.sent[w] = 0

\* A publish that reached an attached socket while the other socket is
\* open for another id or for none.
C11_Witness ==
    /\ lastPublish # NoPublish
    /\ \E w, v \in Ws :
         /\ wsState[w] = "open"
         /\ wsUrl[w] = lastPublish.id
         /\ lastPublish.sent[w] = 1
         /\ wsState[v] = "open"
         /\ wsUrl[v] # lastPublish.id
         /\ lastPublish.sent[v] = 0

\* The response handleDownloadClip returned when it created job slot r.
SubmissionResponse(r) == Response(200, "", jobId[r])

\* Downloader and trimmer of job slot r have exited with code 0, the
\* trimmer on its first or on its re-encode attempt.
ToolsSucceeded(r) ==
    /\ dlProc[r] = "closed"
    /\ (ffProc[r] = "closed" \/ reProc[r] = "closed")

\* C12: every success response is the one recorded for a job slot, and
\* if downloader and trimmer of a job exit with code 0 the job's record
\* at some time is {completed, 100} with the filename and the
\* download URL of that response.
C12_SuccessCompletes ==
    /\ [](http.resp.code = 200 =>
            \E r \in Jobs : Created(r) /\ http.resp = SubmissionResponse(r))
    /\ \A r \in Jobs :
         (<>ToolsSucceeded(r)) =>
              <>( /\ JobRecord(r).status = "completed"
                  /\ JobRecord(r).progress = 100
                  /\ JobRecord(r).filename = SubmissionResponse(r).filename
                  /\ JobRecord(r).download_url
                       = SubmissionResponse(r).download_url )

\* A process of the download stage or of the cut stage of job slot r
\* could not be spawned or ended the stage with a non-zero exit code.
StageFailed(r) ==
    \/ dlProc[r] \in {"closedNonZero", "failed"}
    \/ ffProc[r] = "failed"
    \/ reProc[r] \in {"closedNonZero", "failed"}

\* The messages of the failures the listeners of job slot r have seen.
FailureMessages(r) ==
    (IF dlProc[r] = "closedNonZero"
     THEN {Msg("Download failed with code", c) : c \in ExitCodes \ {0}}
     ELSE {})
    \cup (IF dlProc[r] = "failed" THEN {Msg("spawn yt-dlp failed", 0)} ELSE {})
    \cup (IF ffProc[r] = "failed" THEN {Msg("spawn ffmpeg failed", 0)} ELSE {})
    \cup (IF reProc[r] = "closedNonZero"
          THEN {Msg("FFmpeg failed with code", c) : c \in ExitCodes \ {0}}
          ELSE {})

\* C13: no failure is thrown out of the pipeline, and if a stage of a job
\* fails the job's record at some time is {error, 0, failure message} and
\* has just been published.
C13_FailureAbsorbed ==
    /\ []alive
    /\ \A r \in Jobs :
         (<>StageFailed(r)) =>
              <>( /\ JobRecord(r).status = "error"
                  /\ JobRecord(r).progress = 0
                  /\ JobRecord(r).message \in FailureMessages(r)
                  /\ lastPublish.id = jobId[r]
                  /\ lastPublish.data = JobRecord(r) )

\* C14: per job each of the two trimmer processes is started at most
\* once; the re-encode process is started only by the step in which the
\* first one ended with a non-zero exit code, with the record still in
\* status processing; and a record is put in error during the cut stage
\* only after the re-encode process ended with a non-zero exit code.
C14_OneRetry ==
    [][\A r \in Jobs :
         /\ (ffProc'[r] = "running" /\ ffProc[r] # "running") =>
               ffProc[r] = "none" /\ reProc[r] = "none"
         /\ (reProc'[r] = "running" /\ reProc[r] # "running") =>
               /\ reProc[r] = "none"
               /\ ffProc[r] = "running"
               /\ ffProc'[r] = "closedNonZero"
               /\ downloadProgress'[jobId[r]].status = "processing"
         /\ ( /\ ffProc[r] # "none"
              /\ JobRecord(r).status # "error"
              /\ downloadProgress'[jobId[r]].status = "error" ) =>
               reProc[r] = "closedNonZero"
      ]_vars

\* C15: the file route returns the output file or the intermediate file
\* of a job id only while the record of that id has status completed.
C15_ArtifactOnlyWhenCompleted ==
    \A id \in Ids :
      ( /\ served.code = 200
        /\ served.name \in {OutputFile(id), TempFile(id)} ) =>
        downloadProgress[id].status = "completed"

\* C16: a stored record has the fields filename and download_url exactly
\* when its status is completed; no other record has either field.
C16_FilenameIffCompleted ==
    \A id \in Ids :
      LET rec == downloadProgress[id]
      IN  rec # NoRec =>
            /\ ("filename" \in DOMAIN rec) <=> (rec.status = "completed")
            /\ ("download_url" \in DOMAIN rec) <=> (rec.status = "completed")

\* A completed record with both fields next to an error record.
C16_Witness ==
    \E id, other \in Ids :
      /\ downloadProgress[id].status = "completed"
      /\ downloadProgress[id].filename = Filename(id)
      /\ downloadProgress[id].download_url = DownloadUrl(id)
      /\ downloadProgress[other].status = "error"

\* A record has been written for id: a job was created with that id.
EverWritten(id) == \E r \in Jobs : Created(r) /\ jobId[r] = id

\* C17: a poll of an id answers 404 exactly when no record was ever
\* written for it and otherwise answers the record the store holds for
\* it, and no step removes a record from the store.
C17_PollReturnsRecord ==
    /\ [](polled # NoPoll =>
            /\ polled.code \in {200, 404}
            /\ polled.code = 404 <=> ~EverWritten(polled.id)
            /\ polled.code = 200 =>
                  polled.body = downloadProgress[polled.id])
    /\ [][\A id \in Ids :
            downloadProgress[id] # NoRec => downloadProgress'[id] # NoRec
        ]_vars

\* A poll that returned an error record (progress 0).
C17_Witness ==
    /\ polled.code = 200
    /\ polled.body.status = "error"
    /\ polled.body.progress = 0

\* Every part of a time string has at least two digits.
ZeroPadded(t) == \A i \in 1..Len(t) : Len(t[i]) >= 2

\* C18: formatting a number of seconds and parsing the result gives the
\* number back, and parsing an accepted time string and formatting the
\* result gives a zero-padded string that parses to the same number.
C18_TimeRoundTrip ==
    \A i \in 1..Len(calc) :
      /\ ("sec" \in DOMAIN calc[i] /\ i + 2 <= Len(calc)) =>
            /\ ZeroPadded(calc[i + 1].str)
            /\ calc[i + 2].sec = calc[i].sec
      /\ ("str" \in DOMAIN calc[i] /\ i + 3 <= Len(calc)) =>
            /\ TimeRegexMatches(calc[i + 2].str)
            /\ calc[i + 3].sec = calc[i + 1].sec

\* "1:05:30" -> 3930 -> "01:05:30" -> 3930
C18_Witness ==
    calc = << [str |-> <<<<1>>, <<0, 5>>, <<3, 0>>>>],
              [sec |-> 3930],
              [str |-> <<<<0, 1>>, <<0, 5>>, <<3, 0>>>>],
              [sec |-> 3930] >>

\* The candidate names of a request that exist in directory fs.
ExistingCandidates(lang, format, fs) ==
    {i \in 1..6 : possibleNames(lang, format)[i] \in fs}

\* C19: a subtitle request uses the first candidate name, in the order of
\* the list, that exists; it answers 404 "Subtitle not available for
\* language: <lang>" when none exists; and when one exists the file it
\* hands to the response exists in the directory, for srt, vtt and txt.
C19_SubtitleProbe ==
    (Len(calc) = 2 /\ "subResp" \in DOMAIN calc[2]) =>
      LET q == calc[1].sub
          a == calc[2].subResp
          existing == ExistingCandidates(q.lang, q.format, q.fs)
      IN  /\ existing = {} =>
                /\ a.code = 404
                /\ a.error = Msg("Subtitle not available for language:",
                                 q.lang)
          /\ existing # {} =>
                /\ a.code = 200
                /\ \E i \in existing :
                     /\ \A j \in existing : i <= j
                     /\ a.found = possibleNames(q.lang, q.format)[i]
                /\ a.file \in a.fs

\* The reference transform: of the lines that are not blank, not a pure
\* number and hold no timing arrow, the texts without their tags, each
\* distinct non-empty text once, in the order of first occurrence.
RECURSIVE ReferenceLoop(_, _)
ReferenceLoop(lines, kept) ==
    IF lines = <<>> THEN kept
    ELSE LET trimmed == trim(Head(lines))
             text == removeTags(trimmed)
         IN  IF \/ trimmed = <<>>
                \/ IsNumberLine(trimmed)
                \/ HasArrow(trimmed)
                \/ text = <<>>
                \/ Includes(kept, text)
             THEN ReferenceLoop(Tail(lines), kept)
             ELSE ReferenceLoop(Tail(lines), Append(kept, text))

ReferenceText(lines) == ReferenceLoop(lines, <<>>)

\* C20: convertSubtitleToText returns the reference transform of its
\* input: no text line is dropped except as a repetition.
C20_ConvertEqualsReference ==
    (Len(calc) = 2 /\ "text" \in DOMAIN calc[2]) =>
      calc[2].text = ReferenceText(calc[1].lines)

\* The trimmer of job slot r has been started.
TrimmerStarted(r) == ffProc[r] # "none" \/ reProc[r] # "none"

\* C21: the trimmer of a job is started only by a step that finds the
\* job's downloader exited with code 0, from then on the downloader is
\* closed, and no stderr data of the job is handled once the trimmer has
\* been started.
C21_StagesDoNotOverlap ==
    /\ [](\A r \in Jobs : TrimmerStarted(r) => dlProc[r] = "closed")
    /\ [][\A r \in Jobs :
            /\ (~TrimmerStarted(r) /\ TrimmerStarted(r)') =>
                  dlProc[r] = "closed"
            /\ (\E p10 \in Percents \cup {NoMatch} : DlData(r, p10)) =>
                  ~TrimmerStarted(r) /\ ~TrimmerStarted(r)'
        ]_vars

\* One job is being cut after its downloader reported progress, while
\* the downloader of another job is still reporting.
C21_Witness ==
    \E r, q \in Jobs :
      /\ ffProc[r] = "running"
      /\ dlProc[r] = "closed"
      /\ JobRecord(r).status = "processing"
      /\ dlProc[q] = "streaming"

\* A callback of the pipeline of job slot r: a process event, a stderr
\* chunk or a continuation of the background block.
PipelineStep(r) ==
    \/ JobStep(r)
    \/ \E p10 \in Percents \cup {NoMatch} : DlData(r, p10)

\* C22: a pipeline step of one job leaves the record of every other job
\* and the fan-out table as they are and does not stop the server that
\* runs the other job.
C22_JobsIndependent ==
    [][\A r, q \in Jobs :
         (r # q /\ Created(r) /\ Created(q) /\ PipelineStep(r)) =>
           /\ downloadProgress'[jobId[q]] = downloadProgress[jobId[q]]
           /\ clients' = clients
           /\ alive' = alive
      ]_vars

\* A callback of job slot r that writes the job's record after the
\* initial one.
PipelineWrite(r) ==
    \/ \E p10 \in Percents : DlData(r, p10)
    \/ DlClose(r, 0)
    \/ AfterDownload(r)
    \/ AfterFfmpeg(r)
    \/ Catch(r)

\* Socket w is attached to id and open.
AttachedOpen(w, id) ==
    /\ id \in DOMAIN clients
    /\ w \in clients[id]
    /\ wsState[w] = "open"

\* Every step that writes a job's record after the initial one, and every
\* step that changes a stored record, publishes the record it wrote within
\* the same step, and the publish sends that record once to every socket
\* that is attached to the job and open.
WriteThenPublish ==
    /\ \A r \in Jobs :
         PipelineWrite(r) =>
           /\ lastPublish'.id = jobId[r]
           /\ lastPublish'.data = downloadProgress'[jobId[r]]
           /\ \A w \in Ws :
                AttachedOpen(w, jobId[r]) => lastPublish'.sent[w] = 1
    /\ \A id \in Ids :
         ( /\ downloadProgress[id] # NoRec
           /\ downloadProgress'[id] # downloadProgress[id] ) =>
           /\ lastPublish'.id = id
           /\ lastPublish'.data = downloadProgress'[id]

\* Socket w is attached to the first job and open for as long as the job
\* exists.
StaysAttached(w) == [](Created(1) => AttachedOpen(w, jobId[1]))

\* The terminal record of the first job is sent to socket w.
ReceivesTerminal(w) ==
    /\ lastPublish.id = jobId[1]
    /\ Terminal(lastPublish.data)
    /\ lastPublish.sent[w] = 1

\* C23: every write to a job's record after the initial one is published
\* in the same step, before the next write, to every attached open socket;
\* and a socket that stays attached and open from before the job's first
\* progress event eventually receives the job's terminal record.
C23_EveryWritePublished ==
    /\ [][WriteThenPublish]_vars
    /\ \A w \in Ws :
         (StaysAttached(w) /\ <>Created(1)) => <>ReceivesTerminal(w)

\* The sockets that connected with id and whose close handler has not run.
Connected(id) ==
    {w \in Ws : wsState[w] \in {"open", "closing"} /\ wsUrl[w] = id}

\* C24: the set stored in clients for an id holds exactly the sockets that
\* connected with that id and have not been closed, an id without a set
\* has no such socket, and no socket is in the sets of two ids.
C24_FanoutTracksAttachment ==
    /\ \A id \in DOMAIN clients : clients[id] = Connected(id)
    /\ \A id \in Ids \ DOMAIN clients : Connected(id) = {}
    /\ \A id1, id2 \in DOMAIN clients :
         id1 # id2 => clients[id1] \cap clients[id2] = {}

\* One id has lost its only socket and another id still has one.
C24_Witness ==
    \E id1, id2 \in DOMAIN clients :
      /\ id1 # id2
      /\ clients[id1] = {}
      /\ clients[id2] # {}
      /\ \E w \in Ws : wsState[w] = "closed"

\* C25: the step that attaches a socket sends no message; a socket is sent
\* a message only by a publish for the id it was already attached to; once
\* a job's record is terminal no later step publishes for that id, so a
\* socket attached after that is sent nothing, while a poll of the id
\* returns the terminal record.
C25_AttachDoesNotReplay ==
    [][/\ \A ws \in Ws, id \in Ids \cup {NoId} :
            WsOpen(ws, id) => lastPublish' = NoPublish
       /\ \A w \in Ws :
            lastPublish'.sent[w] = 1 =>
              /\ AttachedOpen(w, lastPublish'.id)
              /\ lastPublish'.data = downloadProgress'[lastPublish'.id]
       /\ \A id \in Ids :
            Terminal(downloadProgress[id]) =>
              /\ \A w \in Ws :
                   lastPublish'.id = id => lastPublish'.sent[w] = 0
              /\ handleGetProgress(id) =>
                   /\ polled'.code = 200
                   /\ polled'.body = downloadProgress[id]
      ]_vars

\* A poll returns the terminal record of a job to which an open socket is
\* attached, and the step has sent the socket nothing.
C25_Witness ==
    \E w \in Ws :
      /\ AttachedOpen(w, polled.id)
      /\ polled.code = 200
      /\ Terminal(polled.body)
      /\ lastPublish = NoPublish

\* The table has no set for id, or an empty one, or one without an open
\* socket.
NoOpenObserver(id) ==
    \/ id \notin DOMAIN clients
    \/ \A w \in clients[id] : wsState[w] # "open"

\* C26: a call of broadcastProgress changes neither the store nor the
\* table nor the state of any job; made for an id without a record, or
\* without a set, with an empty set or with a set of closed sockets only,
\* it sends nothing. The publish inside a pipeline write leaves the table
\* alone, changes the store by the write only, and sends nothing when the
\* id has no open observer.
C26_PublishReadOnly ==
    [][/\ \A id \in Ids :
            broadcastProgressCall(id) =>
              /\ downloadProgress' = downloadProgress
              /\ clients' = clients
              /\ wsState' = wsState
              /\ pc' = pc /\ err' = err /\ alive' = alive
              /\ (NoOpenObserver(id) \/ downloadProgress[id] = NoRec) =>
                    lastPublish'.sent = NoSends
       /\ \A r \in Jobs :
            PipelineWrite(r) =>
              /\ clients' = clients
              /\ wsState' = wsState
              /\ downloadProgress' =
                   [downloadProgress EXCEPT ![jobId[r]] = lastPublish'.data]
              /\ NoOpenObserver(jobId[r]) => lastPublish'.sent = NoSends
      ]_vars

\* A publish of a stored record for an id whose set holds only sockets
\* that are no longer open.
C26_Witness ==
    /\ lastPublish.id \in DOMAIN clients
    /\ lastPublish.data # NoRec
    /\ clients[lastPublish.id] # {}
    /\ \A w \in clients[lastPublish.id] : wsState[w] = "closing"
    /\ lastPublish.sent = NoSends

\* C27: when the downloader and the trimmer have succeeded (the block
\* resumes after `await runFFmpeg`), the step writes and publishes
\* {completed, 100} whether or not the unlink of the intermediate file or
\* an unlink of the sweep fails, and a completed record is changed by no
\* later step, in particular not into an error record.
C27_CleanupFailureNotMasking ==
    [][\A r \in Jobs :
         /\ (pc[r] = "afterFf" /\ pc'[r] # "afterFf") =>
              /\ downloadProgress'[jobId[r]] = CompletedRecord(jobId[r])
              /\ lastPublish'.data = CompletedRecord(jobId[r])
              /\ pc'[r] = "done"
         /\ (Created(r) /\ JobRecord(r).status = "completed") =>
              downloadProgress'[jobId[r]] = downloadProgress[jobId[r]]
      ]_vars

\* The completed record has just been published although the intermediate
\* file, older than an hour, survived both its unlink and the sweep.
C27_Witness ==
    /\ pc[1] = "done"
    /\ lastPublish.data.status = "completed"
    /\ JobRecord(1) = CompletedRecord(jobId[1])
    /\ TempFile(jobId[1]) \in files
    /\ age[TempFile(jobId[1])] > oneHour

\* The lines of a stream, whatever their grouping into chunks.
RECURSIVE Flatten(_)
Flatten(chunks) ==
    IF chunks = <<>> THEN <<>> ELSE Head(chunks) \o Flatten(Tail(chunks))

\* One record {downloading, min(floor(p * 0.5), 50)} per line that carries
\* a percentage p.
RECURSIVE RecordPerLine(_)
RecordPerLine(lines) ==
    IF lines = <<>> THEN <<>>
    ELSE (IF Head(lines) = NoMatch
          THEN <<>>
          ELSE <<[status |-> "downloading",
                  progress |-> Min((Head(lines) * 5) \div 100, 50),
                  message |-> Msg("Downloading... %", Head(lines))]>>)
         \o RecordPerLine(Tail(lines))

\* C28: the records the download stage writes and publishes for a stderr
\* stream are one per line carrying a percentage, in line order, however
\* the lines are grouped into chunks.
C28_RecordPerProgressLine ==
    (Len(calc) = 2 /\ "chunks" \in DOMAIN calc[1]) =>
      calc[2].writes = RecordPerLine(Flatten(calc[1].chunks))

\* The files whose modification age exceeds one hour.
Expired == {f \in files : age[f] >= oneHour + 1}

\* C29: a run of cleanupOldFiles by the timer deletes exactly the expired
\* files whose unlink succeeds, whatever the state of the job they belong
\* to and whichever other unlinks fail, deletes no file that is not
\* expired, and leaves the store unchanged; the run at the end of a job
\* deletes, besides the intermediate file the job unlinks itself, only
\* expired files.
C29_SweepByAgeOnly ==
    [][/\ CleanupTimer =>
            /\ \E stuck \in SUBSET Expired :
                 /\ files' = files \ (Expired \ stuck)
                 /\ files' = cleanupOldFiles(files, age, stuck)
            /\ downloadProgress' = downloadProgress
            /\ clients' = clients
            /\ pc' = pc
       /\ \A r \in Jobs :
            AfterFfmpeg(r) =>
              (files \ files') \subseteq (Expired \cup {TempFile(jobId[r])})
       /\ \A stuck \in SUBSET Expired :
            /\ cleanupOldFiles(files, age, stuck) = files \ (Expired \ stuck)
            /\ cleanupOldFiles(files, age, stuck) \cap (Expired \ stuck) = {}
      ]_vars

\* While ffmpeg of the job is running its intermediate file is gone from
\* the directory and its expired output file is still there.
C29_Witness ==
    /\ pc[1] = "awaitFf"
    /\ ffProc[1] = "running"
    /\ TempFile(jobId[1]) \notin files
    /\ OutputFile(jobId[1]) \in files
    /\ age[OutputFile(jobId[1])] > oneHour

\* A step of handleDownloadSubtitle.
SubtitleStep == sub' # sub \/ subResp' # NoSubResp

\* C30: no step of handleDownloadSubtitle, whether it answers 200, 400,
\* 404 or 500 or is waiting for yt-dlp, changes the store or the table or
\* publishes; a poll of a subtitle id is answered with 404; no publish is
\* made for a subtitle id and a socket attached to one is sent nothing.
C30_SubtitleLeavesTracking ==
    [][/\ SubtitleStep =>
            /\ downloadProgress' = downloadProgress
            /\ clients' = clients
            /\ lastPublish' = NoPublish
       /\ \A id \in SubtitleIds :
            handleGetProgress(id) =>
              polled' = [id |-> id, code |-> 404, body |-> NoRec]
       /\ lastPublish'.id \notin SubtitleIds
       /\ \A w \in Ws :
            wsUrl[w] \in SubtitleIds => lastPublish'.sent[w] = 0
      ]_vars

\* A subtitle request has just been answered with the file while a clip
\* job is in progress and an open socket is attached to a subtitle id.
C30_Witness ==
    /\ subResp.code = 200
    /\ Created(1)
    /\ JobRecord(1) # NoRec
    /\ ~Terminal(JobRecord(1))
    /\ \E id \in SubtitleIds : AttachedOpen(1, id)

====
